---- MODULE Spec2Model ----
(***************************************************************************)
(* Model of programs/solquad/src/testing.rs: the Token ledger (balances    *)
(* and allowances kept in vectors), its four operations, and the           *)
(* TokenInstruction decoder.                                               *)
(***************************************************************************)
EXTENDS Integers, Sequences, FiniteSets, TLC

(* ------------------------------------------------------------------ *)
(* Bounds of the model                                                  *)
(* ------------------------------------------------------------------ *)

\* Largest value of the (narrowed) u64 type: arithmetic is modulo MaxU64 + 1.
MaxU64 == 2

\* Largest number of entries of Token.balances the model lets initialize build.
MaxBalances == 3

\* Largest number of entries of Token.allowances the model lets approve build.
MaxAllowances == 2

\* Largest number of entries the model lets the two tables hold together.
MaxEntries == 3

\* The account identifiers (Pubkey values) the host supplies.
Accounts == {"A", "B"}

U64 == 0..MaxU64

(* ------------------------------------------------------------------ *)
(* State: the fields of Token, and the outcome of the last call         *)
(* ------------------------------------------------------------------ *)

VARIABLES
    total_supply,   \* Token.total_supply
    owner,          \* Token.owner
    balances,       \* Token.balances: Vec<(Pubkey, u64)>
    allowances,     \* Token.allowances: Vec<(Pubkey, Pubkey, u64)>
    last,           \* the last call: operation, arguments, result, returned value
    data,           \* the instruction bytes the host hands to the decoder
    decoded,        \* what TokenInstruction::unpack made of data
    credited        \* the accounts an Initialize instruction was processed for

vars == <<total_supply, owner, balances, allowances, last, data, decoded, credited>>

token == <<total_supply, owner, balances, allowances>>

wire == <<data, decoded, credited>>

\* Option<T>: None is the empty sequence, Some(v) is <<v>>.
None == <<>>

Some(v) == <<v>>

unwrap_or(opt, default) == IF opt = None THEN default ELSE opt[1]

\* The record kept of a call.  ProgramError::InvalidArgument is the error the
\* specification calls UnknownAccount.
Call(op, a1, a2, amount, result, ret) ==
    [op |-> op, a1 |-> a1, a2 |-> a2, amount |-> amount, result |-> result, ret |-> ret]

NoCall == Call("none", "-", "-", 0, "Ok", 0)

\* A panic ends the program: no operation runs after it.
Running == last.result # "Panic"

(* ------------------------------------------------------------------ *)
(* Token::initialize                                                    *)
(* ------------------------------------------------------------------ *)

\* initialize that overwrites the entry the owner already has.
initialize_overwrite(bal, new_owner, supply) ==
    IF \E i \in 1..Len(bal) : bal[i][1] = new_owner
    THEN [i \in 1..Len(bal) |->
             IF bal[i][1] = new_owner THEN <<new_owner, supply>> ELSE bal[i]]
    ELSE Append(bal, <<new_owner, supply>>)

\* self.balances.push((owner, total_supply))
initialize_balances(bal, new_owner, supply) == Append(bal, <<new_owner, supply>>)

(* ------------------------------------------------------------------ *)
(* Token::transfer                                                      *)
(* ------------------------------------------------------------------ *)

\* The lookup loop of transfer from position i on: every entry that matches
\* overwrites the index found so far, and the loop stops as soon as both indices
\* are set.  0 stands for None.
RECURSIVE find_indices(_, _, _, _, _, _)
find_indices(bal, sender, recipient, i, sender_index, recipient_index) ==
    IF i > Len(bal)
    THEN <<sender_index, recipient_index>>
    ELSE LET s == IF bal[i][1] = sender THEN i ELSE sender_index
             r == IF bal[i][1] = recipient THEN i ELSE recipient_index
         IN  IF s # 0 /\ r # 0
             THEN <<s, r>>
             ELSE find_indices(bal, sender, recipient, i + 1, s, r)

\* transfer with the credit of the recipient left out.
transfer_without_credit(bal, sender, recipient, amount) ==
    LET idx == find_indices(bal, sender, recipient, 1, 0, 0)
    IN  IF idx[1] = 0 \/ idx[2] = 0
        THEN {[result |-> "InvalidArgument", balances |-> bal]}
        ELSE IF bal[idx[1]][2] < amount
        THEN {[result |-> "InsufficientFunds", balances |-> bal]}
        ELSE {[result |-> "Ok", balances |-> [bal EXCEPT ![idx[1]][2] = @ - amount]]}

\* transfer with the funds check made as soon as the sender is found, before the
\* recipient is looked up.
transfer_funds_first(bal, sender, recipient, amount) ==
    LET idx == find_indices(bal, sender, recipient, 1, 0, 0)
    IN  IF idx[1] = 0
        THEN {[result |-> "InvalidArgument", balances |-> bal]}
        ELSE IF bal[idx[1]][2] < amount
        THEN {[result |-> "InsufficientFunds", balances |-> bal]}
        ELSE IF idx[2] = 0
        THEN {[result |-> "InvalidArgument", balances |-> bal]}
        ELSE {[result |-> "Ok",
               balances |-> [[bal EXCEPT ![idx[1]][2] = @ - amount]
                                EXCEPT ![idx[2]][2] = (@ + amount) % (MaxU64 + 1)]]}

\* transfer that creates the entry of a recipient that has none.
transfer_lazy_credit(bal, sender, recipient, amount) ==
    LET idx == find_indices(bal, sender, sender, 1, 0, 0)
    IN  IF idx[1] = 0
        THEN {[result |-> "InvalidArgument", balances |-> bal]}
        ELSE IF bal[idx[1]][2] < amount
        THEN {[result |-> "InsufficientFunds", balances |-> bal]}
        ELSE LET debited == [bal EXCEPT ![idx[1]][2] = @ - amount]
                 ri      == find_indices(bal, recipient, recipient, 1, 0, 0)[2]
             IN  IF ri = 0
                 THEN {[result |-> "Ok",
                        balances |-> Append(debited, <<recipient, amount>>)]}
                 ELSE {[result |-> "Ok",
                        balances |-> [debited EXCEPT ![ri][2] = (@ + amount) % (MaxU64 + 1)]]}

\* transfer that computes the credit from the recipient's balance as it was before
\* the debit.
transfer_stale_credit(bal, sender, recipient, amount) ==
    LET idx == find_indices(bal, sender, recipient, 1, 0, 0)
    IN  IF idx[1] = 0 \/ idx[2] = 0
        THEN {[result |-> "InvalidArgument", balances |-> bal]}
        ELSE IF bal[idx[1]][2] < amount
        THEN {[result |-> "InsufficientFunds", balances |-> bal]}
        ELSE {[result |-> "Ok",
               balances |-> [[bal EXCEPT ![idx[1]][2] = @ - amount]
                                EXCEPT ![idx[2]][2] = (bal[idx[2]][2] + amount) % (MaxU64 + 1)]]}

\* transfer that removes the entry of a sender whose balance it brought to 0.
transfer_drops_empty(bal, sender, recipient, amount) ==
    LET idx == find_indices(bal, sender, recipient, 1, 0, 0)
    IN  IF idx[1] = 0 \/ idx[2] = 0
        THEN {[result |-> "InvalidArgument", balances |-> bal]}
        ELSE IF bal[idx[1]][2] < amount
        THEN {[result |-> "InsufficientFunds", balances |-> bal]}
        ELSE LET moved == [[bal EXCEPT ![idx[1]][2] = @ - amount]
                              EXCEPT ![idx[2]][2] = (@ + amount) % (MaxU64 + 1)]
             IN  IF moved[idx[1]][2] = 0
                 THEN {[result |-> "Ok",
                        balances |-> SubSeq(moved, 1, idx[1] - 1)
                                        \o SubSeq(moved, idx[1] + 1, Len(moved))]}
                 ELSE {[result |-> "Ok", balances |-> moved]}

\* The outcomes of transfer on the table bal: a set of [result, balances].  The
\* credit `+= amount` overflows when the sum exceeds the largest u64: the build
\* decides whether it wraps (overflow checks off) or panics (overflow checks on),
\* and the panic leaves the debit already applied.
transfer_outcomes(bal, sender, recipient, amount) ==
    LET idx == find_indices(bal, sender, recipient, 1, 0, 0)
        si  == idx[1]
        ri  == idx[2]
    IN  IF si = 0 \/ ri = 0
        THEN {[result |-> "InvalidArgument", balances |-> bal]}
        ELSE IF bal[si][2] < amount
        THEN {[result |-> "InsufficientFunds", balances |-> bal]}
        ELSE LET debited == [bal EXCEPT ![si][2] = @ - amount]
                 sum     == debited[ri][2] + amount
             IN  IF sum <= MaxU64
                 THEN {[result |-> "Ok", balances |-> [debited EXCEPT ![ri][2] = sum]]}
                 ELSE {[result |-> "Ok",
                        balances |-> [debited EXCEPT ![ri][2] = sum % (MaxU64 + 1)]],
                       [result |-> "Panic", balances |-> debited]}

(* ------------------------------------------------------------------ *)
(* Token::get_balance                                                   *)
(* ------------------------------------------------------------------ *)

\* get_balance that keeps the last entry of the account instead of the first.
RECURSIVE get_balance_last_entry(_, _)
get_balance_last_entry(bal, account) ==
    IF bal = <<>>
    THEN None
    ELSE IF bal[Len(bal)][1] = account
    THEN Some(bal[Len(bal)][2])
    ELSE get_balance_last_entry(SubSeq(bal, 1, Len(bal) - 1), account)

\* iter().find(..).map(..): the balance of the first entry of the account.
RECURSIVE get_balance(_, _)
get_balance(bal, account) ==
    IF bal = <<>>
    THEN None
    ELSE IF Head(bal)[1] = account
    THEN Some(Head(bal)[2])
    ELSE get_balance(Tail(bal), account)

(* ------------------------------------------------------------------ *)
(* Token::approve                                                       *)
(* ------------------------------------------------------------------ *)

\* iter_mut().position(..): the index of the first entry of the pair, 0 for None.
RECURSIVE position(_, _, _, _)
position(allow, sender, spender, i) ==
    IF i > Len(allow)
    THEN 0
    ELSE IF allow[i][1] = sender /\ allow[i][2] = spender
    THEN i
    ELSE position(allow, sender, spender, i + 1)

\* approve that adds the amount to the allowance the pair already has.
approve_additive(allow, sender, spender, amount) ==
    LET allowance_index == position(allow, sender, spender, 1)
    IN  IF allowance_index # 0
        THEN [allow EXCEPT ![allowance_index][3] = (@ + amount) % (MaxU64 + 1)]
        ELSE Append(allow, <<sender, spender, amount>>)

approve(allow, sender, spender, amount) ==
    LET allowance_index == position(allow, sender, spender, 1)
    IN  IF allowance_index # 0
        THEN [allow EXCEPT ![allowance_index][3] = amount]
        ELSE Append(allow, <<sender, spender, amount>>)

(* ------------------------------------------------------------------ *)
(* TokenInstruction::unpack                                             *)
(* ------------------------------------------------------------------ *)

\* Width of a u64 field in bytes.
U64Len == 8

\* Width of a Pubkey in bytes.
PubkeyLen == 32

\* Number of values of a byte.
ByteBase == 256

\* What a decoding step yields: Ok with an instruction (tag, spender, value) or
\* with a partial result (value, or spender and rest), Err with
\* ProgramError::InvalidInstruction (the specification's MalformedInstruction),
\* or Panic.  NotDecoded is the state before unpack has run.
Decoded(kind, tag, spender, value, rest) ==
    [kind |-> kind, tag |-> tag, spender |-> spender, value |-> value, rest |-> rest]

NotDecoded == Decoded("None", "-", <<>>, 0, <<>>)

InvalidInstruction == Decoded("Err", "InvalidInstruction", <<>>, 0, <<>>)

Panicked == Decoded("Panic", "-", <<>>, 0, <<>>)

OkInstruction(tag, spender, value) == Decoded("Ok", tag, spender, value, <<>>)

\* u64::from_le_bytes: the first byte is the least significant.
RECURSIVE from_le_bytes(_)
from_le_bytes(bytes) ==
    IF bytes = <<>>
    THEN 0
    ELSE Head(bytes) + ByteBase * from_le_bytes(Tail(bytes))

\* unpack_u64 that takes a field of exactly 8 bytes and nothing after it.
unpack_u64_exact(input) ==
    IF Len(input) # U64Len
    THEN InvalidInstruction
    ELSE Decoded("Ok", "-", <<>>, from_le_bytes(input), <<>>)

unpack_u64(input) ==
    IF Len(input) < U64Len
    THEN InvalidInstruction
    ELSE Decoded("Ok", "-", <<>>, from_le_bytes(SubSeq(input, 1, U64Len)), <<>>)

\* input.split_at(32) panics when input is shorter than 32 bytes; there is no
\* length check before it.
unpack_pubkey(input) ==
    IF Len(input) < PubkeyLen
    THEN Panicked
    ELSE Decoded("Ok", "-", SubSeq(input, 1, PubkeyLen), 0,
                 SubSeq(input, PubkeyLen + 1, Len(input)))

unpack_approve(input) ==
    LET key == unpack_pubkey(input)
    IN  IF key.kind # "Ok"
        THEN key
        ELSE LET amount == unpack_u64(key.rest)
             IN  IF amount.kind # "Ok"
                 THEN amount
                 ELSE Decoded("Ok", "-", key.spender, amount.value, <<>>)

\* unpack that takes every tag other than 0, 1 and 3 for GetBalance.
unpack_unknown_as_get_balance(input) ==
    IF input = <<>>
    THEN InvalidInstruction
    ELSE LET tag  == Head(input)
             rest == Tail(input)
         IN  CASE tag = 0 ->
                    LET total == unpack_u64(rest)
                    IN  IF total.kind # "Ok" THEN total
                        ELSE OkInstruction("Initialize", <<>>, total.value)
               [] tag = 1 ->
                    LET amount == unpack_u64(rest)
                    IN  IF amount.kind # "Ok" THEN amount
                        ELSE OkInstruction("Transfer", <<>>, amount.value)
               [] tag = 3 ->
                    LET pair == unpack_approve(rest)
                    IN  IF pair.kind # "Ok" THEN pair
                        ELSE OkInstruction("Approve", pair.spender, pair.value)
               [] OTHER -> OkInstruction("GetBalance", <<>>, 0)

\* unpack with the tags of Initialize and Transfer exchanged.
unpack_swapped_tags(input) ==
    IF input = <<>>
    THEN InvalidInstruction
    ELSE LET tag  == Head(input)
             rest == Tail(input)
         IN  CASE tag \in {0, 1} ->
                    LET total == unpack_u64(rest)
                    IN  IF total.kind # "Ok" THEN total
                        ELSE OkInstruction(IF tag = 0 THEN "Transfer" ELSE "Initialize",
                                           <<>>, total.value)
               [] tag = 2 -> OkInstruction("GetBalance", <<>>, 0)
               [] tag = 3 ->
                    LET pair == unpack_approve(rest)
                    IN  IF pair.kind # "Ok" THEN pair
                        ELSE OkInstruction("Approve", pair.spender, pair.value)
               [] OTHER -> InvalidInstruction

unpack(input) ==
    IF input = <<>>
    THEN InvalidInstruction
    ELSE LET tag  == Head(input)
             rest == Tail(input)
         IN  CASE tag = 0 ->
                    LET total == unpack_u64(rest)
                    IN  IF total.kind # "Ok" THEN total
                        ELSE OkInstruction("Initialize", <<>>, total.value)
               [] tag = 1 ->
                    LET amount == unpack_u64(rest)
                    IN  IF amount.kind # "Ok" THEN amount
                        ELSE OkInstruction("Transfer", <<>>, amount.value)
               [] tag = 2 -> OkInstruction("GetBalance", <<>>, 0)
               [] tag = 3 ->
                    LET pair == unpack_approve(rest)
                    IN  IF pair.kind # "Ok" THEN pair
                        ELSE OkInstruction("Approve", pair.spender, pair.value)
               [] OTHER -> InvalidInstruction

(* ------------------------------------------------------------------ *)
(* The operations as actions                                            *)
(* ------------------------------------------------------------------ *)

\* A Token as process_instruction constructs it.
Init ==
    /\ total_supply = 0
    /\ owner \in Accounts
    /\ balances = <<>>
    /\ allowances = <<>>
    /\ last = NoCall
    /\ data = <<>>
    /\ decoded = NotDecoded
    /\ credited = {}

Initialize(new_owner, supply) ==
    /\ Running
    /\ Len(balances) < MaxBalances
    /\ Len(balances) + Len(allowances) < MaxEntries
    /\ total_supply' = supply
    /\ owner' = new_owner
    /\ balances' = initialize_balances(balances, new_owner, supply)
    /\ last' = Call("initialize", new_owner, "-", supply, "Ok", 0)
    /\ UNCHANGED <<allowances, wire>>

Transfer(sender, recipient, amount) ==
    /\ Running
    /\ \E out \in transfer_outcomes(balances, sender, recipient, amount) :
          /\ balances' = out.balances
          /\ last' = Call("transfer", sender, recipient, amount, out.result, 0)
    /\ UNCHANGED <<total_supply, owner, allowances, wire>>

\* The GetBalance handler: token.get_balance(account.key).unwrap_or(0).
GetBalance(account) ==
    /\ Running
    /\ last' = Call("get_balance", account, "-", 0, "Ok",
                    unwrap_or(get_balance(balances, account), 0))
    /\ UNCHANGED <<token, wire>>

\* approve that refuses an amount above what the owner holds.
ApproveWithinBalance(sender, spender, amount) ==
    /\ Running
    /\ \/ Len(allowances) < MaxAllowances /\ Len(balances) + Len(allowances) < MaxEntries
       \/ position(allowances, sender, spender, 1) # 0
    /\ IF unwrap_or(get_balance(balances, sender), 0) < amount
       THEN /\ allowances' = allowances
            /\ last' = Call("approve", sender, spender, amount, "InsufficientFunds", 0)
       ELSE /\ allowances' = approve(allowances, sender, spender, amount)
            /\ last' = Call("approve", sender, spender, amount, "Ok", 0)
    /\ UNCHANGED <<total_supply, owner, balances, wire>>

Approve(sender, spender, amount) ==
    /\ Running
    /\ \/ Len(allowances) < MaxAllowances /\ Len(balances) + Len(allowances) < MaxEntries
       \/ position(allowances, sender, spender, 1) # 0
    /\ allowances' = approve(allowances, sender, spender, amount)
    /\ last' = Call("approve", sender, spender, amount, "Ok", 0)
    /\ UNCHANGED <<total_supply, owner, balances, wire>>

Next ==
    \/ \E a \in Accounts, v \in U64 : Initialize(a, v)
    \/ \E s \in Accounts, r \in Accounts, v \in U64 : Transfer(s, r, v)
    \/ \E a \in Accounts : GetBalance(a)
    \/ \E s \in Accounts, p \in Accounts, v \in U64 : Approve(s, p, v)

Spec == Init /\ [][Next]_vars

(* ------------------------------------------------------------------ *)
(* The balance table alone, and the allowance table alone               *)
(* ------------------------------------------------------------------ *)

\* The operations that read or write Token.balances.
NextLedger ==
    \/ \E a \in Accounts, v \in U64 : Initialize(a, v)
    \/ \E s \in Accounts, r \in Accounts, v \in U64 : Transfer(s, r, v)
    \/ \E a \in Accounts : GetBalance(a)

SpecLedger == Init /\ [][NextLedger]_vars

\* Sequences of approve calls.
NextApprove == \E s \in Accounts, p \in Accounts, v \in U64 : Approve(s, p, v)

SpecApprove == Init /\ [][NextApprove]_vars

(* ------------------------------------------------------------------ *)
(* A ledger that is initialized once                                    *)
(* ------------------------------------------------------------------ *)

\* initialize on the empty ledger: nothing removes an entry, so the table is
\* empty exactly as long as initialize has not run.
InitializeOnce(new_owner, supply) ==
    /\ balances = <<>>
    /\ Initialize(new_owner, supply)

NextOnce ==
    \/ \E a \in Accounts, v \in U64 : InitializeOnce(a, v)
    \/ \E s \in Accounts, r \in Accounts, v \in U64 : Transfer(s, r, v)
    \/ \E a \in Accounts : GetBalance(a)

SpecOnce == Init /\ [][NextOnce]_vars

(* ------------------------------------------------------------------ *)
(* The decoder on the buffers a host may hand in                        *)
(* ------------------------------------------------------------------ *)

\* u64 values whose encodings exercise every one of the low bytes.
U64Samples == {0, 1, 255, 256, 66051, 16909060}

\* Pubkey values: 32 bytes that differ from position to position.
KeySample(k) == [i \in 1..PubkeyLen |-> (k + i) % ByteBase]

KeySamples == {KeySample(0), KeySample(230)}

\* The instruction values the buffers are built from.
Instructions ==
    {OkInstruction("Initialize", <<>>, v) : v \in U64Samples}
    \cup {OkInstruction("Transfer", <<>>, v) : v \in U64Samples}
    \cup {OkInstruction("GetBalance", <<>>, 0)}
    \cup {OkInstruction("Approve", k, v) : k \in KeySamples, v \in U64Samples}

\* The n little-endian bytes of v.
RECURSIVE to_le_bytes(_, _)
to_le_bytes(v, n) ==
    IF n = 0
    THEN <<>>
    ELSE <<v % ByteBase>> \o to_le_bytes(v \div ByteBase, n - 1)

\* The wire format of an instruction: the tag byte, then the fields.
Encode(instruction) ==
    CASE instruction.tag = "Initialize" -> <<0>> \o to_le_bytes(instruction.value, U64Len)
      [] instruction.tag = "Transfer"   -> <<1>> \o to_le_bytes(instruction.value, U64Len)
      [] instruction.tag = "GetBalance" -> <<2>>
      [] instruction.tag = "Approve"    ->
            <<3>> \o instruction.spender \o to_le_bytes(instruction.value, U64Len)

\* Bytes that follow a complete instruction.
Trailing == {<<0>>, <<7, 255>>}

\* Tags no instruction has.
BadTags == {4, 255}

\* Every encoding, every truncation of one, every encoding with trailing bytes,
\* and buffers with a tag no instruction has.
Buffers ==
    UNION {{SubSeq(Encode(i), 1, n) : n \in 0..Len(Encode(i))} : i \in Instructions}
    \cup {Encode(i) \o t : i \in Instructions, t \in Trailing}
    \cup {<<b>> \o body : b \in BadTags, body \in {<<>>, to_le_bytes(1, U64Len)}}
    \cup {<<b>> \o Tail(Encode(i)) : b \in BadTags, i \in Instructions}

\* let instruction = TokenInstruction::unpack(instruction_data)
Unpack ==
    /\ decoded = NotDecoded
    /\ decoded' = unpack(data)
    /\ UNCHANGED <<token, last, data, credited>>

\* The host hands in the next buffer.
Load ==
    /\ decoded # NotDecoded
    /\ data' \in Buffers
    /\ decoded' = NotDecoded
    /\ UNCHANGED <<token, last, credited>>

NextDecode == Unpack \/ Load

\* The first buffer is the empty one.
SpecDecode == Init /\ [][NextDecode]_vars

(* ------------------------------------------------------------------ *)
(* process_instruction                                                  *)
(* ------------------------------------------------------------------ *)

\* The key of an account, and the account of a key.
KeyOf(account) == IF account = "A" THEN KeySample(0) ELSE KeySample(230)

AccountOf(key) == CHOOSE a \in Accounts : KeyOf(a) = key

\* The account lists a host hands in: none, one or two accounts.
AccountLists ==
    {<<>>} \cup {<<a>> : a \in Accounts} \cup {<<a, b>> : a \in Accounts, b \in Accounts}

\* The instruction buffers a host hands in: the encodings of the instructions
\* over the amounts of the ledger, and four buffers that do not decode.
ProcBuffers ==
    {Encode(OkInstruction("Initialize", <<>>, v)) : v \in U64}
    \cup {Encode(OkInstruction("Transfer", <<>>, v)) : v \in U64}
    \cup {Encode(OkInstruction("GetBalance", <<>>, 0))}
    \cup {Encode(OkInstruction("Approve", KeyOf(a), v)) : a \in Accounts, v \in U64}
    \cup {<<>>, <<4>>, <<1, 0, 0>>, <<3>>}

\* A Token loaded from what the last invocation left behind.
loaded_token(accts) ==
    [total_supply |-> total_supply, owner |-> owner,
     balances |-> balances, allowances |-> allowances]

\* Token { total_supply: 0, owner: *accounts[0].key, balances: vec![],
\* allowances: vec![] }: the Token every arm constructs.
constructed_token(accts) ==
    [total_supply |-> 0, owner |-> accts[1], balances |-> <<>>, allowances |-> <<>>]

\* The invocation ends before a Token is constructed: the variables keep the
\* Token of the invocation before.
Rejected(err) ==
    /\ last' = Call("process", "-", "-", 0, err, 0)
    /\ UNCHANGED <<token, credited>>

\* One invocation of process_instruction.  next_account_info hands out the
\* accounts in order and fails with NotEnoughAccountKeys when none is left;
\* accounts[0] panics on an empty list.  The variables of the Token hold the
\* local Token as the invocation leaves it.
Process(accts, buf) ==
    LET instruction == unpack(buf)
        t == constructed_token(accts)
    IN  /\ data' = buf
        /\ decoded' = instruction
        /\ CASE instruction.kind = "Err" -> Rejected("InvalidInstruction")
             [] instruction.kind = "Panic" -> Rejected("Panic")
             [] instruction.kind = "Ok" /\ instruction.tag = "Initialize" ->
                  IF accts = <<>>
                  THEN Rejected("Panic")
                  ELSE /\ total_supply' = instruction.value
                       /\ owner' = accts[1]
                       /\ balances' = initialize_balances(t.balances, accts[1],
                                                          instruction.value)
                       /\ allowances' = t.allowances
                       /\ last' = Call("initialize", accts[1], "-", instruction.value,
                                       "Ok", 0)
                       /\ credited' = credited \cup {accts[1]}
             [] instruction.kind = "Ok" /\ instruction.tag = "Transfer" ->
                  IF Len(accts) < 2
                  THEN Rejected("NotEnoughAccountKeys")
                  ELSE /\ \E out \in transfer_outcomes(t.balances, accts[1], accts[2],
                                                       instruction.value) :
                             /\ balances' = out.balances
                             /\ last' = Call("transfer", accts[1], accts[2],
                                             instruction.value, out.result, 0)
                       /\ total_supply' = t.total_supply
                       /\ owner' = t.owner
                       /\ allowances' = t.allowances
                       /\ UNCHANGED credited
             [] instruction.kind = "Ok" /\ instruction.tag = "GetBalance" ->
                  IF accts = <<>>
                  THEN Rejected("NotEnoughAccountKeys")
                  ELSE /\ last' = Call("get_balance", accts[1], "-", 0, "Ok",
                                       unwrap_or(get_balance(t.balances, accts[1]), 0))
                       /\ total_supply' = t.total_supply
                       /\ owner' = t.owner
                       /\ balances' = t.balances
                       /\ allowances' = t.allowances
                       /\ UNCHANGED credited
             [] instruction.kind = "Ok" /\ instruction.tag = "Approve" ->
                  IF accts = <<>>
                  THEN Rejected("NotEnoughAccountKeys")
                  ELSE /\ allowances' = approve(t.allowances, accts[1],
                                                AccountOf(instruction.spender),
                                                instruction.value)
                       /\ last' = Call("approve", accts[1], AccountOf(instruction.spender),
                                       instruction.value, "Ok", 0)
                       /\ total_supply' = t.total_supply
                       /\ owner' = t.owner
                       /\ balances' = t.balances
                       /\ UNCHANGED credited

NextProc == \E accts \in AccountLists, buf \in ProcBuffers : Process(accts, buf)

SpecProc == Init /\ [][NextProc]_vars

(* ------------------------------------------------------------------ *)
(* Vocabulary of the properties                                         *)
(* ------------------------------------------------------------------ *)

\* The account has an entry in the balance table.
HasEntry(bal, account) == \E i \in 1..Len(bal) : bal[i][1] = account

RECURSIVE SumBalances(_)
SumBalances(bal) == IF bal = <<>> THEN 0 ELSE Head(bal)[2] + SumBalances(Tail(bal))

\* What get_balance reports for the account, 0 when it has no entry.
balance_of(bal, account) == unwrap_or(get_balance(bal, account), 0)

\* The balance of the entry of the account that comes first in the table.
FirstEntryBalance(bal, account) ==
    LET first == CHOOSE i \in 1..Len(bal) :
                    /\ bal[i][1] = account
                    /\ \A j \in 1..(i - 1) : bal[j][1] # account
    IN  bal[first][2]

\* The entries of the allowance table for the pair, as the set of their indices.
PairEntries(allow, o, s) == {i \in 1..Len(allow) : allow[i][1] = o /\ allow[i][2] = s}

\* The amounts the allowance table holds for the pair.
PairAmounts(allow, o, s) == {allow[i][3] : i \in PairEntries(allow, o, s)}

\* The step just taken was a call of op.
Called(op) == last'.op = op

(* ------------------------------------------------------------------ *)
(* Properties                                                           *)
(* ------------------------------------------------------------------ *)

\* C1: on a ledger initialized once (SpecOnce), in every state from the
\* initialize on, whatever transfers succeeded or failed, the balances of the table
\* add up to total_supply.
C1_Conservation == balances # <<>> => SumBalances(balances) = total_supply

\* C1 witness: after the initialize a transfer of a positive amount succeeded.
C1_Witness ==
    /\ balances # <<>>
    /\ last.op = "transfer" /\ last.result = "Ok" /\ last.amount > 0

\* C2 as claimed: a transfer between two accounts that have entries, of more than
\* get_balance reports for the sender, fails with InsufficientFunds and changes no
\* balance; and no balance is ever below 0.
C2_OverdraftRefused ==
    /\ [][(/\ Called("transfer")
           /\ HasEntry(balances, last'.a1) /\ HasEntry(balances, last'.a2)
           /\ last'.amount > balance_of(balances, last'.a1))
          => (last'.result = "InsufficientFunds" /\ balances' = balances)]_vars
    /\ [](\A i \in 1..Len(balances) : balances[i][2] >= 0)

\* C3: a transfer whose sender or recipient has no entry fails with InvalidArgument
\* (UnknownAccount), whatever the amount, and changes nothing of the ledger.
C3_UnknownAccount ==
    [][(/\ Called("transfer")
        /\ ~HasEntry(balances, last'.a1) \/ ~HasEntry(balances, last'.a2))
       => (last'.result = "InvalidArgument" /\ token' = token)]_vars

\* C3 witness: the sender has an entry and too little on it, the recipient has no
\* entry, and the transfer was refused for the missing account.
C3_Witness ==
    /\ last.op = "transfer" /\ last.result = "InvalidArgument"
    /\ HasEntry(balances, last.a1) /\ ~HasEntry(balances, last.a2)
    /\ last.amount > balance_of(balances, last.a1)

\* C4 as claimed: a transfer between two different accounts that have entries, of
\* at most the sender's balance, succeeds, and get_balance then reports the old
\* balance less the amount for the sender and plus the amount for the recipient.
C4_TransferMoves ==
    [][(/\ Called("transfer")
        /\ last'.a1 # last'.a2
        /\ HasEntry(balances, last'.a1) /\ HasEntry(balances, last'.a2)
        /\ last'.amount <= balance_of(balances, last'.a1))
       => (/\ last'.result = "Ok"
           /\ balance_of(balances', last'.a1) = balance_of(balances, last'.a1) - last'.amount
           /\ balance_of(balances', last'.a2) = balance_of(balances, last'.a2) + last'.amount)]_vars

\* The case of C5: on a ledger initialized once, the owner has just transferred at
\* most total_supply to the other account, which was never credited.
C5_Case ==
    /\ balances # <<>>
    /\ last.op = "transfer" /\ last.a1 = owner /\ last.a2 # owner
    /\ last.amount <= total_supply

\* C5 as claimed: that transfer succeeds and leaves the table with the owner at
\* total_supply less the amount and a new entry of the recipient at the amount.
C5_LazyCredit ==
    C5_Case => (/\ last.result = "Ok"
                /\ Len(balances) = 2
                /\ balance_of(balances, last.a1) = total_supply - last.amount
                /\ HasEntry(balances, last.a2)
                /\ balance_of(balances, last.a2) = last.amount)

\* C5 amended: that transfer fails with InvalidArgument (UnknownAccount) and the
\* table stays the single entry of the owner at total_supply.
C5_UnknownRecipient ==
    C5_Case => (/\ last.result = "InvalidArgument"
                /\ balances = <<(<<owner, total_supply>>)>>)

\* C5 witness: the case with a positive amount.
C5_Witness == C5_Case /\ last.amount > 0

\* C6 as claimed: after initialize, in whatever state it was called, total_supply
\* and owner are the arguments and get_balance reports total_supply for the owner.
C6_InitializeOverwrites ==
    last.op = "initialize"
        => (/\ last.result = "Ok"
            /\ total_supply = last.amount
            /\ owner = last.a1
            /\ balance_of(balances, owner) = total_supply)

\* C7: after every sequence of approve calls the allowance table holds at most one
\* entry of each pair (it starts empty); an approve leaves exactly one entry of its
\* pair, with the amount of that approve, and changes the amount of no other pair.
C7_ApprovalOverwrite ==
    [][/\ \A o \in Accounts, s \in Accounts :
             Cardinality(PairEntries(allowances', o, s)) <= 1
       /\ Called("approve")
       /\ Cardinality(PairEntries(allowances', last'.a1, last'.a2)) = 1
       /\ PairAmounts(allowances', last'.a1, last'.a2) = {last'.amount}
       /\ \A o \in Accounts, s \in Accounts :
             <<o, s>> # <<last'.a1, last'.a2>>
                => PairAmounts(allowances', o, s) = PairAmounts(allowances, o, s)]_vars

\* C7 witness: the pair of the last approve is not the last entry of the table, so
\* that approve found the entry of its pair and overwrote it.
C7_Witness ==
    /\ last.op = "approve"
    /\ Len(allowances) = 2
    /\ allowances[1] = <<last.a1, last.a2, last.amount>>

\* C8: get_balance never fails and changes nothing of the ledger; it yields the
\* balance of the account's entry (the first one) when the account has one, and 0
\* when it has none.
C8_GetBalance ==
    [][Called("get_balance")
       => (/\ last'.result = "Ok"
           /\ token' = token
           /\ last'.ret = IF HasEntry(balances, last'.a1)
                          THEN FirstEntryBalance(balances, last'.a1)
                          ELSE 0)]_vars

\* C8 witness: the table has entries with positive balances, none of the account
\* asked for, and get_balance yielded 0.
C8_Witness ==
    /\ last.op = "get_balance" /\ last.ret = 0
    /\ ~HasEntry(balances, last.a1)
    /\ \E i \in 1..Len(balances) : balances[i][2] > 0

\* The buffer is a truncated instruction: tag 0 or 1 with fewer than 8 bytes after
\* it, or tag 3 with fewer than 32 + 8 bytes after it.
Truncated(buf) ==
    /\ buf # <<>>
    /\ \/ Head(buf) \in {0, 1} /\ Len(buf) - 1 < U64Len
       \/ Head(buf) = 3 /\ Len(buf) - 1 < PubkeyLen + U64Len

\* C9 as claimed: unpack of a truncated buffer yields the error InvalidInstruction
\* (MalformedInstruction), never a panic and never an instruction.
C9_TruncatedIsMalformed ==
    (decoded # NotDecoded /\ Truncated(data)) => decoded = InvalidInstruction

\* C10: unpack of the encoding of an instruction yields that instruction: the same
\* variant with the same spender and the same u64 value.
C10_RoundTrip ==
    \A i \in Instructions :
        (decoded # NotDecoded /\ data = Encode(i)) => decoded = i

\* C10 witness: an Approve whose amount takes more than one byte was encoded and
\* decoded.
C10_Witness ==
    /\ decoded.kind = "Ok" /\ decoded.tag = "Approve" /\ decoded.value >= ByteBase
    /\ data = Encode(decoded)

\* C11: unpack of the empty buffer, and of every buffer whose first byte is not
\* 0, 1, 2 or 3, yields the error InvalidInstruction (MalformedInstruction) whatever
\* follows the first byte; a buffer whose first byte is 2 yields GetBalance, with
\* or without bytes after it.
C11_TagDispatch ==
    decoded # NotDecoded
        => /\ (data = <<>> \/ Head(data) \notin {0, 1, 2, 3}) => decoded = InvalidInstruction
           /\ (data # <<>> /\ Head(data) = 2) => decoded = OkInstruction("GetBalance", <<>>, 0)

\* C11 witness: a buffer with an unknown tag and the payload of an Approve after it
\* was refused.
C11_Witness ==
    /\ decoded = InvalidInstruction
    /\ Len(data) = 1 + PubkeyLen + U64Len
    /\ Head(data) \in BadTags

\* C18: whenever a prefix of the buffer decodes to an instruction, the whole buffer
\* decodes to that same instruction: the bytes after what a variant consumes are
\* ignored.
C18_TrailingIgnored ==
    decoded # NotDecoded
        => \A n \in 0..Len(data) :
              unpack(SubSeq(data, 1, n)).kind = "Ok"
                  => decoded = unpack(SubSeq(data, 1, n))

\* C18 witness: the encoding of an Approve followed by two more bytes was decoded
\* to that Approve.
C18_Witness ==
    /\ decoded.kind = "Ok" /\ decoded.tag = "Approve"
    /\ Len(data) = 1 + PubkeyLen + U64Len + 2
    /\ SubSeq(data, 1, 1 + PubkeyLen + U64Len) = Encode(decoded)

\* C12: initialize succeeds in whatever state it is called, also on a ledger that
\* was initialized before: it sets total_supply to its argument and credits the
\* owner on top of what the table held, so that the balances add up to the old sum
\* plus the new total_supply.
C12_Reinitialize ==
    [][Called("initialize")
       => (/\ last'.result = "Ok"
           /\ total_supply' = last'.amount
           /\ owner' = last'.a1
           /\ HasEntry(balances', last'.a1)
           /\ SumBalances(balances') = SumBalances(balances) + last'.amount)]_vars

\* C12 witness: after exactly two initialize calls (only initialize adds an entry)
\* the balances do not add up to total_supply.
C12_Witness ==
    /\ last.op = "initialize"
    /\ Len(balances) = 2
    /\ SumBalances(balances) # total_supply

\* C13 as claimed: the balance table never holds two entries of one account.
C13_OneEntryPerAccount ==
    \A i \in 1..Len(balances), j \in 1..Len(balances) :
        i # j => balances[i][1] # balances[j][1]

\* C14 as claimed: a transfer that passes the account check and the funds check
\* succeeds with both updates applied exactly, so that the balances add up to what
\* they added up to before: the credit never exceeds the largest u64.
C14_AtomicTransfer ==
    [][(Called("transfer") /\ last'.result \notin {"InvalidArgument", "InsufficientFunds"})
       => (/\ last'.result = "Ok"
           /\ \A i \in 1..Len(balances') : balances'[i][2] <= MaxU64
           /\ SumBalances(balances') = SumBalances(balances))]_vars

\* C15: a transfer of an account with an entry to itself succeeds and changes no
\* balance when the amount is at most the account's balance, and fails with
\* InsufficientFunds, changing nothing, when the amount is larger.
C15_SelfTransfer ==
    [][(Called("transfer") /\ last'.a1 = last'.a2 /\ HasEntry(balances, last'.a1))
       => (/\ balances' = balances
           /\ last'.result = IF last'.amount <= FirstEntryBalance(balances, last'.a1)
                             THEN "Ok"
                             ELSE "InsufficientFunds")]_vars

\* C15 witness: an account with two entries of different balances transferred a
\* positive amount to itself.
C15_Witness ==
    /\ last.op = "transfer" /\ last.a1 = last.a2 /\ last.result = "Ok"
    /\ last.amount > 0
    /\ \E i \in 1..Len(balances), j \in 1..Len(balances) :
          /\ balances[i][1] = last.a1 /\ balances[j][1] = last.a1
          /\ balances[i][2] # balances[j][2]

C17_ApproveFrame ==
    [][Called("approve")
       => (/\ last'.result = "Ok"
           /\ total_supply' = total_supply
           /\ owner' = owner
           /\ balances' = balances
           /\ Len(allowances') >= Len(allowances)
           /\ \A i \in 1..Len(allowances') :
                 \/ allowances'[i][1] = last'.a1 /\ allowances'[i][2] = last'.a2
                 \/ i <= Len(allowances) /\ allowances'[i] = allowances[i])]_vars

\* C17 witness: an owner with no balance entry approved a positive amount while
\* the balance table had an entry and the allowance table an entry of another pair.
C17_Witness ==
    /\ last.op = "approve" /\ last.result = "Ok" /\ last.amount > 0
    /\ balances # <<>> /\ ~HasEntry(balances, last.a1)
    /\ \E i \in 1..Len(allowances) :
          <<allowances[i][1], allowances[i][2]>> # <<last.a1, last.a2>>

\* C19: in every sequence of invocations of process_instruction, a Transfer
\* instruction that is handed its two accounts fails with InvalidArgument
\* (UnknownAccount) and a GetBalance instruction that is handed its account reports
\* 0, both on an empty ledger, whatever was processed before; and no invocation
\* leaves more in the ledger than its own instruction put there.
C19_NoLedgerState ==
    /\ last.op = "transfer"
          => (last.result = "InvalidArgument" /\ balances = <<>> /\ total_supply = 0)
    /\ last.op = "get_balance"
          => (last.result = "Ok" /\ last.ret = 0 /\ balances = <<>> /\ total_supply = 0)
    /\ Len(balances) + Len(allowances) <= 1

\* C19 witness: Initialize was processed for both accounts of a Transfer of 0, which
\* then failed for the unknown account.
C19_Witness ==
    /\ last.op = "transfer" /\ last.result = "InvalidArgument" /\ last.amount = 0
    /\ last.a1 \in credited /\ last.a2 \in credited

====
